---------------------------- MODULE Spec2Model ----------------------------
(***************************************************************************)
(* SignOut: gloss words -> SMPL-X pose sequences -> rendered animation.    *)
(*                                                                         *)
(* The module models four parts of the repository:                         *)
(*   - the anatomical constraint engine of word_to_smplx.py (SpecClip),    *)
(*   - its hand processing, smoothing then constraints (SpecProcess),      *)
(*   - blend_pose_sequences of streamlit_app.py (SpecBlend),               *)
(*   - WordToSMPLX.render_animation and its three callers: the CLI of      *)
(*     word_to_smplx.py, the Streamlit page and the Flask endpoint         *)
(*     (SpecRender for one direct call, Spec for whole requests).          *)
(*                                                                         *)
(* Angles are fixed-point numbers, in hundredths of a radian.  The three   *)
(* IEEE special values are integers outside the range of every angle.      *)
(***************************************************************************)
EXTENDS Integers, Sequences, FiniteSets, TLC

VARIABLES
    \* --- constraint engine, one call on one frame and a second on its output
    clipPc, clipIn, clipOut, clipTwice,
    \* --- _process_hand_pose_data, one call
    procPc,                 \* position in _process_hand_pose_data
    hand_pose_np,           \* the caller's array, N x 45
    smoothed_hand_pose,     \* the local copy, smoothed in place
    constrained_hand_pose,  \* the array returned
    \* --- blend_pose_sequences, one call
    blendPc, seq_a, seq_b, n_blend, blendOut,
    \* --- the evaluator (a WordToSMPLX instance) and the output directory
    renderer,       \* whether pyrender and trimesh could be imported
    files,          \* path -> video artifact, the files that exist
    errorsLeft,     \* how many more times the body model will raise
    \* --- one call of render_animation
    rPc,            \* position in render_animation
    pose_data,      \* its argument: [kind, smplx]
    save_path,      \* its argument, "" for None
    fps,            \* its argument
    hands,          \* [left, right]: the processed hand poses, N x 45 each
    frame_i,        \* the loop variable i
    frames,         \* the rendered images so far
    calls,          \* every evaluation of the body model, in order
    output,         \* the body model's last output
    rResult,        \* what the call returned, or the exception it raised
    \* --- one request of a caller
    pc, reqNo, caller, words, pose_data_sequences, widx, all_frames, resp

clipVars == <<clipPc, clipIn, clipOut, clipTwice>>
procVars == <<procPc, hand_pose_np, smoothed_hand_pose, constrained_hand_pose>>
blendVars == <<blendPc, seq_a, seq_b, n_blend, blendOut>>
envVars == <<renderer, files, errorsLeft>>
renderVars == <<rPc, pose_data, save_path, fps, hands, frame_i, frames, calls, output, rResult>>
reqVars == <<pc, reqNo, caller, words, pose_data_sequences, widx, all_frames, resp>>
vars == <<clipVars, procVars, blendVars, envVars, renderVars, reqVars>>

(***************************************************************************)
(* Floating point values                                                   *)
(***************************************************************************)
PInf == 1000 * 1000
NInf == 0 - PInf
NaN == PInf + 1

IsNaN(x) == x = NaN
IsInf(x) == x = PInf \/ x = NInf
IsFinite(x) == ~IsNaN(x) /\ ~IsInf(x)

\* numpy.clip(x, lo, hi) on one value: minimum(maximum(x, lo), hi), NaN kept.
NoUpperClip(x, lo, hi) == IF IsNaN(x) THEN NaN ELSE IF x < lo THEN lo ELSE x
Clip(x, lo, hi) ==
    IF IsNaN(x) THEN NaN
    ELSE IF x < lo THEN lo
    ELSE IF x > hi THEN hi
    ELSE x

(***************************************************************************)
(* Joint layout registry and joint limit table                            *)
(***************************************************************************)
\* (finger, joint type, start, end) in the dictionary's iteration order;
\* start and end are the 0-based half-open range of the source.
finger_joint_mapping ==
    << [finger |-> "thumb",  joint |-> "cmc", start |-> 0,  end |-> 3],
       [finger |-> "thumb",  joint |-> "mcp", start |-> 3,  end |-> 6],
       [finger |-> "thumb",  joint |-> "ip",  start |-> 6,  end |-> 9],
       [finger |-> "index",  joint |-> "mcp", start |-> 9,  end |-> 12],
       [finger |-> "index",  joint |-> "pip", start |-> 12, end |-> 15],
       [finger |-> "index",  joint |-> "dip", start |-> 15, end |-> 18],
       [finger |-> "middle", joint |-> "mcp", start |-> 18, end |-> 21],
       [finger |-> "middle", joint |-> "pip", start |-> 21, end |-> 24],
       [finger |-> "middle", joint |-> "dip", start |-> 24, end |-> 27],
       [finger |-> "ring",   joint |-> "mcp", start |-> 27, end |-> 30],
       [finger |-> "ring",   joint |-> "pip", start |-> 30, end |-> 33],
       [finger |-> "ring",   joint |-> "dip", start |-> 33, end |-> 36],
       [finger |-> "pinky",  joint |-> "mcp", start |-> 36, end |-> 39],
       [finger |-> "pinky",  joint |-> "pip", start |-> 39, end |-> 42],
       [finger |-> "pinky",  joint |-> "dip", start |-> 42, end |-> 45] >>

\* name -> <<lower, upper>>, in hundredths of a radian.
hand_joint_limits ==
    [ mcp_flexion         |-> <<0, 157>>,
      mcp_abduction       |-> <<-35, 35>>,
      mcp_twist           |-> <<-20, 20>>,
      pip_flexion         |-> <<0, 175>>,
      pip_side_flex       |-> <<-10, 10>>,
      pip_twist           |-> <<-10, 10>>,
      dip_flexion         |-> <<0, 122>>,
      dip_side_flex       |-> <<-5, 5>>,
      dip_twist           |-> <<-5, 5>>,
      thumb_cmc_flexion   |-> <<-50, 90>>,
      thumb_cmc_abduction |-> <<0, 122>>,
      thumb_cmc_twist     |-> <<-50, 50>>,
      thumb_mcp_flexion   |-> <<-20, 90>>,
      thumb_mcp_abduction |-> <<-10, 10>>,
      thumb_mcp_twist     |-> <<-20, 20>>,
      thumb_ip_flexion    |-> <<-20, 140>>,
      thumb_ip_side_flex  |-> <<-10, 10>>,
      thumb_ip_twist      |-> <<-10, 10>>,
      general_clamp       |-> <<-314, 314>> ]

\* The branches of the engine without the one for the thumb's ip joint.
BranchLimitNamesWithoutThumbIp(finger, joint) ==
    IF finger = "thumb"
    THEN CASE joint = "cmc" -> <<"thumb_cmc_flexion", "thumb_cmc_abduction", "thumb_cmc_twist">>
           [] joint = "mcp" -> <<"thumb_mcp_flexion", "thumb_mcp_abduction", "thumb_mcp_twist">>
           [] OTHER -> << >>
    ELSE CASE joint = "mcp" -> <<"mcp_flexion", "mcp_abduction", "mcp_twist">>
           [] joint = "pip" -> <<"pip_flexion", "pip_side_flex", "pip_twist">>
           [] joint = "dip" -> <<"dip_flexion", "dip_side_flex", "dip_twist">>
           [] OTHER -> << >>

\* The limit names one (finger, joint type) branch of the engine reads, for
\* DoF 0, 1, 2; the empty sequence when no branch matches.
BranchLimitNames(finger, joint) ==
    IF finger = "thumb"
    THEN CASE joint = "cmc" -> <<"thumb_cmc_flexion", "thumb_cmc_abduction", "thumb_cmc_twist">>
           [] joint = "mcp" -> <<"thumb_mcp_flexion", "thumb_mcp_abduction", "thumb_mcp_twist">>
           [] joint = "ip"  -> <<"thumb_ip_flexion", "thumb_ip_side_flex", "thumb_ip_twist">>
           [] OTHER -> << >>
    ELSE CASE joint = "mcp" -> <<"mcp_flexion", "mcp_abduction", "mcp_twist">>
           [] joint = "pip" -> <<"pip_flexion", "pip_side_flex", "pip_twist">>
           [] joint = "dip" -> <<"dip_flexion", "dip_side_flex", "dip_twist">>
           [] OTHER -> << >>

(***************************************************************************)
(* Anatomical constraint engine                                            *)
(***************************************************************************)
\* One iteration of the loop over the joints: the three values of the
\* joint's slice are clipped and the slice is written back.
ConstrainJointRotated(pose, e) ==
    LET names == BranchLimitNames(e.finger, e.joint)
        joint_params == SubSeq(pose, e.start + 1, e.end)
        clipped == [d \in 1..Len(joint_params) |->
                      IF d <= Len(names)
                      THEN Clip(joint_params[d],
                                hand_joint_limits[names[d]][1],
                                hand_joint_limits[names[d]][2])
                      ELSE joint_params[d]]
    IN  [p \in 1..Len(pose) |->
            IF p > e.start /\ p <= e.end
            THEN clipped[((p - e.start) % Len(joint_params)) + 1]
            ELSE pose[p]]
ConstrainJoint(pose, e) ==
    LET names == BranchLimitNames(e.finger, e.joint)
        joint_params == SubSeq(pose, e.start + 1, e.end)
        clipped == [d \in 1..Len(joint_params) |->
                      IF d <= Len(names)
                      THEN Clip(joint_params[d],
                                hand_joint_limits[names[d]][1],
                                hand_joint_limits[names[d]][2])
                      ELSE joint_params[d]]
    IN  [p \in 1..Len(pose) |->
            IF p > e.start /\ p <= e.end THEN clipped[p - e.start] ELSE pose[p]]

RECURSIVE ConstrainFrom(_, _)
ConstrainFrom(pose, k) ==
    IF k > Len(finger_joint_mapping) THEN pose
    ELSE ConstrainFrom(ConstrainJoint(pose, finger_joint_mapping[k]), k + 1)

\* _apply_anatomical_constraints_to_frame: a copy of the frame, every joint
\* of the registry constrained in turn.
ApplyAnatomicalConstraintsToFrame(hand_pose_frame) ==
    ConstrainFrom(hand_pose_frame, 1)

(***************************************************************************)
(* SpecClip: the engine applied to one frame, then to its own output       *)
(***************************************************************************)
HandDim == 45
MaxExp == 3

RECURSIVE Pow4(_)
Pow4(k) == IF k = 0 THEN 1 ELSE 4 * Pow4(k - 1)

\* 0, and 3 * 4^k with both signs: values inside the narrowest interval and
\* beyond the widest one.
AngleVals == {0} \cup {3 * Pow4(k) : k \in 0..MaxExp}
                 \cup {0 - 3 * Pow4(k) : k \in 0..MaxExp}

\* A frame holding bg everywhere but at joint j, which holds t.
FrameWithJoint(bg, j, t) ==
    [p \in 1..HandDim |->
        IF p > finger_joint_mapping[j].start /\ p <= finger_joint_mapping[j].end
        THEN t[p - finger_joint_mapping[j].start]
        ELSE bg]

\* The value of the other joints: neutral, or far outside every interval.
BackgroundVals == {0, 3 * Pow4(MaxExp), 0 - 3 * Pow4(MaxExp)}

ProcOff ==
    /\ procPc = "off" /\ hand_pose_np = << >>
    /\ smoothed_hand_pose = << >> /\ constrained_hand_pose = << >>
ClipOff ==
    clipPc = "off" /\ clipIn = << >> /\ clipOut = << >> /\ clipTwice = << >>
BlendOff ==
    /\ blendPc = "off" /\ seq_a = << >> /\ seq_b = << >>
    /\ n_blend = 0 /\ blendOut = << >>

NoPoseData == [kind |-> "none", smplx |-> << >>]
NoHands == [left |-> << >>, right |-> << >>]
NoResp == [status |-> "none", error |-> "", served |-> ""]
RenderOff ==
    /\ rPc = "off" /\ pose_data = NoPoseData /\ save_path = "" /\ fps = 0
    /\ hands = NoHands /\ frame_i = 0 /\ frames = << >> /\ calls = << >>
    /\ output = << >> /\ rResult = "none"
RequestOff ==
    /\ pc = "off" /\ reqNo = 0 /\ caller = "" /\ words = << >>
    /\ pose_data_sequences = << >> /\ widx = 0 /\ all_frames = << >>
    /\ resp = NoResp
EnvOff == renderer = FALSE /\ files = << >> /\ errorsLeft = 0

InitClip ==
    /\ ProcOff /\ BlendOff /\ EnvOff /\ RenderOff /\ RequestOff
    /\ clipPc = "input"
    /\ \E bg \in BackgroundVals, j \in 1..Len(finger_joint_mapping),
          t \in [1..3 -> AngleVals] :
            clipIn = FrameWithJoint(bg, j, t)
    /\ clipOut = << >>
    /\ clipTwice = << >>

ClipOnce ==
    /\ clipPc = "input"
    /\ clipOut' = ApplyAnatomicalConstraintsToFrame(clipIn)
    /\ clipPc' = "once"
    /\ UNCHANGED <<clipIn, clipTwice, procVars, blendVars, envVars, renderVars, reqVars>>

ClipAgain ==
    /\ clipPc = "once"
    /\ clipTwice' = ApplyAnatomicalConstraintsToFrame(clipOut)
    /\ clipPc' = "twice"
    /\ UNCHANGED <<clipIn, clipOut, procVars, blendVars, envVars, renderVars, reqVars>>

NextClip == ClipOnce \/ ClipAgain

SpecClip == InitClip /\ [][NextClip]_vars

(***************************************************************************)
(* Pose frames: 156 parameters, global orientation (3), body pose (63),    *)
(* left hand (45), right hand (45)                                         *)
(***************************************************************************)
PoseDim == 156

\* A frame holding one value per sub-range.
MkFrame(g, b, l, r) ==
    [p \in 1..PoseDim |->
        IF p <= 3 THEN g ELSE IF p <= 66 THEN b ELSE IF p <= 111 THEN l ELSE r]

(***************************************************************************)
(* blend_pose_sequences                                                    *)
(***************************************************************************)
\* The frame at 0-based blend index i: (1 - alpha) * a + alpha * b with
\* alpha = (i + 1) / (n_blend + 1), the same for all 156 parameters.
BlendFrameWeightOnA(a, b, i, n) ==
    [p \in 1..Len(a) |-> ((i + 1) * a[p] + (n + 1 - (i + 1)) * b[p]) \div (n + 1)]
BlendFrame(a, b, i, n) ==
    [p \in 1..Len(a) |-> ((n + 1 - (i + 1)) * a[p] + (i + 1) * b[p]) \div (n + 1)]

\* blended_part: frame i pairs seq_a[-n_blend + i] with seq_b[i].
BlendedPart(a, b, n) ==
    [i \in 1..n |-> BlendFrame(a[Len(a) - n + i], b[i], i - 1, n)]

BlendInsertingB(a, b, n) ==
    IF n = 0 \/ Len(a) < n \/ Len(b) < n
    THEN a \o b
    ELSE IF BlendedPart(a, b, n) = << >>
    THEN a \o b
    ELSE SubSeq(a, 1, Len(a) - n) \o BlendedPart(a, b, n) \o b
\* The result without the frames of A before the window.
BlendDroppingAHead(a, b, n) ==
    IF n = 0 \/ Len(a) < n \/ Len(b) < n
    THEN a \o b
    ELSE IF BlendedPart(a, b, n) = << >>
    THEN a \o b
    ELSE BlendedPart(a, b, n) \o SubSeq(b, n + 1, Len(b))
\* Lines 13-14: no blending for width 0 or a sequence shorter than the width;
\* lines 23-24: nor when the loop produced nothing, as range() does for a
\* negative width.
blend_pose_sequences(a, b, n) ==
    IF n = 0 \/ Len(a) < n \/ Len(b) < n
    THEN a \o b
    ELSE IF BlendedPart(a, b, n) = << >>
    THEN a \o b
    ELSE SubSeq(a, 1, Len(a) - n) \o BlendedPart(a, b, n)
            \o SubSeq(b, n + 1, Len(b))

(***************************************************************************)
(* SpecBlend: one call of blend_pose_sequences                             *)
(***************************************************************************)
MaxSeqLen == 3
MaxBlend == 4
\* A negative width, which range(n_blend) treats as no iteration.
MinBlend == 0 - 1

RECURSIVE Gcd(_, _)
Gcd(x, y) == IF y = 0 THEN x ELSE Gcd(y, x % y)
RECURSIVE LcmUpTo(_)
LcmUpTo(n) == IF n <= 1 THEN 1 ELSE (LcmUpTo(n - 1) * n) \div Gcd(LcmUpTo(n - 1), n)

\* Every input value is a multiple of every divisor n_blend + 1 in use, so
\* the interpolation is exact.
BlendUnit == LcmUpTo(MaxBlend + 1)
BlendFrames ==
    { MkFrame(s * BlendUnit, 0 - s * BlendUnit, 2 * s * BlendUnit, 5 * s * BlendUnit) :
        s \in {1, 3} }
BlendSeqs == UNION { [1..n -> BlendFrames] : n \in 1..MaxSeqLen }

InitBlend ==
    /\ ClipOff /\ ProcOff /\ EnvOff /\ RenderOff /\ RequestOff
    /\ blendPc = "input"
    /\ seq_a \in BlendSeqs
    /\ seq_b \in BlendSeqs
    /\ n_blend \in MinBlend..MaxBlend
    /\ blendOut = << >>

BlendCall ==
    /\ blendPc = "input"
    /\ blendOut' = blend_pose_sequences(seq_a, seq_b, n_blend)
    /\ blendPc' = "done"
    /\ UNCHANGED <<seq_a, seq_b, n_blend, clipVars, procVars, envVars, renderVars, reqVars>>

NextBlend == BlendCall

SpecBlend == InitBlend /\ [][NextBlend]_vars

(***************************************************************************)
(* Temporal smoother and hand processing                                   *)
(***************************************************************************)
\* gaussian_filter1d(sigma = 0.3): the kernel's radius is int(4 * 0.3 + 0.5)
\* = 1, its weights are exp(-x^2 / (2 * 0.09)) normalised, here per million.
GaussCentre == 992328
GaussSide == 3836

RoundDiv(n, d) == (2 * n + d) \div (2 * d)

\* One output sample from the sample c and its two neighbours: IEEE sums,
\* a NaN or two opposite infinities give NaN, one infinity gives itself.
Gauss3(l, c, r) ==
    LET xs == {l, c, r}
    IN  IF NaN \in xs \/ (PInf \in xs /\ NInf \in xs) THEN NaN
        ELSE IF PInf \in xs THEN PInf
        ELSE IF NInf \in xs THEN NInf
        ELSE RoundDiv(GaussCentre * c + GaussSide * (l + r),
                      GaussCentre + 2 * GaussSide)

\* Every channel filtered along the frame axis, mode = 'nearest': the edge
\* sample stands for the missing neighbour.
GaussianFilterChannels(seq) ==
    LET n == Len(seq)
    IN  [f \in 1..n |->
            [c \in 1..Len(seq[f]) |->
                Gauss3(seq[IF f = 1 THEN 1 ELSE f - 1][c],
                       seq[f][c],
                       seq[IF f = n THEN n ELSE f + 1][c])]]

\* _process_hand_pose_data: smoothing when there are at least 2 frames, then
\* the constraint engine frame by frame.
ProcessHandPoseData(hand_pose) ==
    LET smoothed == IF Len(hand_pose) > 1
                    THEN GaussianFilterChannels(hand_pose)
                    ELSE hand_pose
    IN  [f \in 1..Len(smoothed) |-> ApplyAnatomicalConstraintsToFrame(smoothed[f])]

(***************************************************************************)
(* render_animation                                                        *)
(***************************************************************************)
\* The four slices of the N x 156 parameter array.
GlobalOrient(params) == [f \in 1..Len(params) |-> SubSeq(params[f], 1, 3)]
BodyPose(params) == [f \in 1..Len(params) |-> SubSeq(params[f], 4, 66)]
LeftHandRaw(params) == [f \in 1..Len(params) |-> SubSeq(params[f], 67, 111)]
RightHandRaw(params) == [f \in 1..Len(params) |-> SubSeq(params[f], 112, 156)]

PiHundredths == 314
FloatMax == PInf - 1

\* torch.nan_to_num: NaN becomes 0, an infinity the largest finite value of
\* its sign.
NanToNum(v) ==
    [c \in 1..Len(v) |->
        IF IsNaN(v[c]) THEN 0
        ELSE IF v[c] = PInf THEN FloatMax
        ELSE IF v[c] = NInf THEN 0 - FloatMax
        ELSE v[c]]
HasNaN(v) == \E c \in 1..Len(v) : IsNaN(v[c])
ZerosLike(v) == [c \in 1..Len(v) |-> 0]

\* What the first evaluation of 0-based frame k is given.
UnsanitizedArgs(k) ==
    LET p == pose_data.smplx
        go == GlobalOrient(p)[k + 1]
    IN  [global_orient |-> [go EXCEPT ![1] = @ + PiHundredths],
         body_pose |-> BodyPose(p)[k + 1],
         left_hand_pose |-> hands.left[k + 1],
         right_hand_pose |-> hands.right[k + 1]]
FrameArgs(k) ==
    LET p == pose_data.smplx
        go == GlobalOrient(p)[k + 1]
        lhp == hands.left[k + 1]
        rhp == hands.right[k + 1]
        nan == HasNaN(lhp) \/ HasNaN(rhp)
    IN  [global_orient |-> [go EXCEPT ![1] = @ + PiHundredths],
         body_pose |-> BodyPose(p)[k + 1],
         left_hand_pose |-> IF nan THEN NanToNum(lhp) ELSE lhp,
         right_hand_pose |-> IF nan THEN NanToNum(rhp) ELSE rhp]

\* What the evaluation in the except branch is given.
RetrySameHands(k) == FrameArgs(k)
RetryArgs(k) ==
    [FrameArgs(k) EXCEPT !.left_hand_pose = ZerosLike(@),
                         !.right_hand_pose = ZerosLike(@)]

RECURSIVE SumSeq(_)
SumSeq(v) == IF v = << >> THEN 0 ELSE v[1] + SumSeq(Tail(v))

\* The image of one evaluated frame.  The body model and the renderer are
\* opaque: the image keeps the orientation, the first body parameter and
\* the sum of each hand's parameters.
Rasterize(out) ==
    [orient |-> out.global_orient, body |-> out.body_pose[1],
     left |-> SumSeq(out.left_hand_pose), right |-> SumSeq(out.right_hand_pose)]

\* Lines 196-214: the validation of the smplx field, the slices and the hand
\* processing, up to the loop.
HasRows(pd) == Len(pd.smplx) > 0
HandsComplete(pd) == \A f \in 1..Len(pd.smplx) : Len(pd.smplx[f]) >= PoseDim
WellFormed(pd) == pd.kind = "ndarray" /\ HasRows(pd) /\ HandsComplete(pd)

\* The type test of line 197 without its isinstance(smplx_data, np.ndarray):
\* a list of frames goes on to np.stack.
StartErrorAcceptingLists(pd) ==
    IF pd.kind \in {"missing", "flat"} THEN "ValueError"
    ELSE IF ~HasRows(pd) THEN "IndexError"
    ELSE IF ~HandsComplete(pd) THEN "IndexError"
    ELSE "none"

\* The exception the statements before the loop raise for pose_data, "none"
\* when they raise nothing.  Line 197 raises ValueError for a missing field
\* and for anything but an array of arrays, and its smplx_data[0] raises
\* IndexError for an array without rows; with rows of fewer than 156 values
\* a hand slice is too short and joint_params[...] raises IndexError inside
\* the hand processing of lines 208-209.
StartError(pd) ==
    IF pd.kind # "ndarray" THEN "ValueError"
    ELSE IF ~HasRows(pd) THEN "IndexError"
    ELSE IF ~HandsComplete(pd) THEN "IndexError"
    ELSE "none"

RenderStart ==
    /\ rPc = "start"
    /\ IF StartError(pose_data) # "none"
       THEN /\ rPc' = "raised"
            /\ rResult' = StartError(pose_data)
            /\ UNCHANGED <<hands, frame_i, frames>>
       ELSE /\ hands' = [left |-> ProcessHandPoseData(LeftHandRaw(pose_data.smplx)),
                         right |-> ProcessHandPoseData(RightHandRaw(pose_data.smplx))]
            /\ frame_i' = 0
            /\ frames' = << >>
            /\ rPc' = "frame"
            /\ UNCHANGED rResult
    /\ calls' = << >>
    /\ output' = << >>
    /\ UNCHANGED <<pose_data, save_path, fps, envVars, reqVars, clipVars, procVars, blendVars>>

\* Lines 216-234: the first evaluation of frame i, which may raise.
\* The body model is opaque: an evaluation returns or raises, and it raises
\* while errorsLeft allows.
ModelOutcomes == IF errorsLeft > 0 THEN BOOLEAN ELSE {TRUE}
EvalFrame ==
    /\ rPc = "frame"
    /\ \E ok \in ModelOutcomes :
          /\ calls' = Append(calls, [frame |-> frame_i, attempt |-> 1,
                                     args |-> FrameArgs(frame_i), ok |-> ok])
          /\ output' = IF ok THEN FrameArgs(frame_i) ELSE output
          /\ rPc' = IF ok THEN "render" ELSE "retry"
          /\ errorsLeft' = IF ok THEN errorsLeft ELSE errorsLeft - 1
    /\ UNCHANGED <<pose_data, save_path, fps, hands, frame_i, frames, rResult,
                   renderer, files, reqVars, clipVars, procVars, blendVars>>

\* Lines 235-244: the except branch, one more evaluation with zero hands;
\* an exception of this one leaves render_animation.
RetryFrame ==
    /\ rPc = "retry"
    /\ \E ok \in ModelOutcomes :
          /\ calls' = Append(calls, [frame |-> frame_i, attempt |-> 2,
                                     args |-> RetryArgs(frame_i), ok |-> ok])
          /\ output' = IF ok THEN RetryArgs(frame_i) ELSE output
          /\ rPc' = IF ok THEN "render" ELSE "raised"
          /\ rResult' = IF ok THEN rResult ELSE "ModelError"
          /\ errorsLeft' = IF ok THEN errorsLeft ELSE errorsLeft - 1
    /\ UNCHANGED <<pose_data, save_path, fps, hands, frame_i, frames,
                   renderer, files, reqVars, clipVars, procVars, blendVars>>

\* Lines 245-257: with a renderer the frame is rendered and the loop goes on;
\* without one the model's output is returned at once.
RenderFrameSkipping ==
    /\ rPc = "render"
    /\ frames' = IF renderer THEN Append(frames, Rasterize(output)) ELSE frames
    /\ frame_i' = frame_i + 1
    /\ rPc' = IF frame_i + 1 < Len(pose_data.smplx) THEN "frame" ELSE "encode"
    /\ UNCHANGED <<rResult, pose_data, save_path, fps, hands, calls, output,
                   envVars, reqVars, clipVars, procVars, blendVars>>
RenderFrameSavingEachFrame ==
    /\ rPc = "render"
    /\ IF renderer
       THEN /\ frames' = Append(frames, Rasterize(output))
            /\ frame_i' = frame_i + 1
            /\ rPc' = IF frame_i + 1 < Len(pose_data.smplx) THEN "frame" ELSE "encode"
            /\ files' = IF save_path # ""
                        THEN [q \in DOMAIN files \cup {save_path} |->
                                IF q = save_path
                                THEN [frames |-> Append(frames, Rasterize(output)),
                                      fps |-> fps]
                                ELSE files[q]]
                        ELSE files
            /\ UNCHANGED rResult
       ELSE /\ rPc' = "returned"
            /\ rResult' = "output"
            /\ UNCHANGED <<frames, frame_i, files>>
    /\ UNCHANGED <<renderer, errorsLeft, pose_data, save_path, fps, hands, calls,
                   output, reqVars, clipVars, procVars, blendVars>>
RenderFrame ==
    /\ rPc = "render"
    /\ IF renderer
       THEN /\ frames' = Append(frames, Rasterize(output))
            /\ frame_i' = frame_i + 1
            /\ rPc' = IF frame_i + 1 < Len(pose_data.smplx) THEN "frame" ELSE "encode"
            /\ UNCHANGED rResult
       ELSE /\ rPc' = "returned"
            /\ rResult' = "output"
            /\ UNCHANGED <<frames, frame_i>>
    /\ UNCHANGED <<pose_data, save_path, fps, hands, calls, output,
                   envVars, reqVars, clipVars, procVars, blendVars>>

\* imageio.mimsave: the artifact at path holds the images and the frame rate.
WriteVideo(fs, path, imgs, rate) ==
    [q \in DOMAIN fs \cup {path} |->
        IF q = path THEN [frames |-> imgs, fps |-> rate] ELSE fs[q]]
Exists(path) == path \in DOMAIN files

\* Lines 258-260: after the loop, the video is written when a path is given.
Encode ==
    /\ rPc = "encode"
    /\ files' = IF save_path # "" THEN WriteVideo(files, save_path, frames, fps)
                ELSE files
    /\ rPc' = "returned"
    /\ rResult' = "frames"
    /\ UNCHANGED <<renderer, errorsLeft, pose_data, save_path, fps, hands, frame_i,
                   frames, calls, output, reqVars, clipVars, procVars, blendVars>>

NextRender == RenderStart \/ EvalFrame \/ RetryFrame \/ RenderFrame \/ Encode

(***************************************************************************)
(* The dataset: per-word pose sequences                                    *)
(***************************************************************************)
MaxFrames == 3

WordOffset(w) == IF w = "april" THEN 0 ELSE 5
SeqLen(w) == IF w = "april" THEN MaxFrames - 1 ELSE MaxFrames

\* Frame f of word w.  The hand values jump between frames (the smoother
\* has something to smooth) and lie inside some intervals and outside
\* others (the constraint engine has something to clip).
BaseFrame(w, f) ==
    MkFrame(10 * f + WordOffset(w),
            2 * f + WordOffset(w),
            IF f % 2 = 1 THEN 40 + WordOffset(w) ELSE 400,
            IF f % 2 = 1 THEN -300 ELSE 60 + WordOffset(w))
BaseSeq(w, n) == [f \in 1..n |-> BaseFrame(w, f)]
DatasetSeq(w) == BaseSeq(w, SeqLen(w))

\* A cell is one hand parameter of one frame: [hand, frame, chan, val], chan
\* the 0-based index in the hand's 45 values.
CellIndex(cell) == (IF cell.hand = "left" THEN 66 ELSE 111) + cell.chan + 1
WithCells(seq, cells) ==
    [f \in 1..Len(seq) |->
        [p \in 1..Len(seq[f]) |->
            IF \E cell \in cells : cell.frame = f /\ CellIndex(cell) = p
            THEN (CHOOSE cell \in cells : cell.frame = f /\ CellIndex(cell) = p).val
            ELSE seq[f][p]]]

(***************************************************************************)
(* SpecRender: one call of render_animation                                *)
(***************************************************************************)
NonFinite == {NaN, PInf, NInf}
\* Thumb cmc flexion (interval [-0.5, 0.9]) and index mcp flexion ([0, 1.57]).
DefectChans == {0, 9}
Cells(n) ==
    [hand : {"left", "right"}, frame : 1..n, chan : DefectChans, val : NonFinite]

\* No non-finite value, one, two in the same channel of adjacent frames, or
\* two in different channels of one frame.
DefectSets(n) ==
    {{}} \cup {{cell} : cell \in Cells(n)}
         \cup UNION {{{c1, c2} : c2 \in
                        {c \in Cells(n) :
                            /\ c.hand = c1.hand
                            /\ \/ c.chan = c1.chan /\ c.frame = c1.frame + 1
                               \/ c.chan > c1.chan /\ c.frame = c1.frame}} :
                      c1 \in Cells(n)}

\* The first w values of every frame of a sequence.
Truncated(seq, w) == [f \in 1..Len(seq) |-> SubSeq(seq[f], 1, w)]

\* Frame widths short of 156: the body only, and both hands but for the
\* right hand's last value.
NarrowWidths == {66, PoseDim - 1}

RenderInputs ==
    UNION {{[kind |-> "ndarray", smplx |-> WithCells(BaseSeq("announce", n), d)] :
               d \in DefectSets(n)} : n \in 1..MaxFrames}
    \cup {[kind |-> k, smplx |-> BaseSeq("april", n)] :
               k \in {"list", "flat"}, n \in 1..MaxFrames}
    \cup {[kind |-> "missing", smplx |-> << >>]}
    \cup {[kind |-> "ndarray", smplx |-> << >>]}
    \cup {[kind |-> "ndarray", smplx |-> Truncated(BaseSeq("announce", n), w)] :
               n \in 1..MaxFrames, w \in NarrowWidths}

InitRender ==
    /\ ClipOff /\ ProcOff /\ BlendOff /\ RequestOff
    /\ renderer \in BOOLEAN
    /\ files = << >>
    /\ errorsLeft = 2 * MaxFrames
    /\ rPc = "start"
    /\ pose_data \in RenderInputs
    /\ save_path \in {"", "out.mp4"}
    /\ fps = 15
    /\ hands = NoHands /\ frame_i = 0 /\ frames = << >> /\ calls = << >>
    /\ output = << >> /\ rResult = "none"

SpecRender == InitRender /\ [][NextRender]_vars

(***************************************************************************)
(* SpecProcess: one call of _process_hand_pose_data                        *)
(***************************************************************************)
\* Hand frames of 45 values, inside some intervals and outside others, and
\* hand sequences of 0 to MaxFrames of them.
HandVals == {0 - 300, 0, 65, 400}
HandFrame(v) == [c \in 1..HandDim |-> IF c % 3 = 1 THEN v ELSE 40 - v]
HandSeqs == UNION { [1..n -> {HandFrame(v) : v \in HandVals}] : n \in 0..MaxFrames }

InitProcess ==
    /\ ClipOff /\ BlendOff /\ EnvOff /\ RenderOff /\ RequestOff
    /\ procPc = "called"
    /\ hand_pose_np \in HandSeqs
    /\ smoothed_hand_pose = << >>
    /\ constrained_hand_pose = << >>

\* Line 175: smoothed_hand_pose = np.copy(hand_pose_np).
ProcCopy ==
    /\ procPc = "called"
    /\ smoothed_hand_pose' = hand_pose_np
    /\ procPc' = "copied"
    /\ UNCHANGED <<hand_pose_np, constrained_hand_pose,
                   clipVars, blendVars, envVars, renderVars, reqVars>>

\* Lines 176-178 writing through to the caller's array, as they would
\* without the copy of line 175.
ProcSmoothInPlace ==
    /\ procPc = "copied"
    /\ smoothed_hand_pose' = IF Len(smoothed_hand_pose) > 1
                             THEN GaussianFilterChannels(smoothed_hand_pose)
                             ELSE smoothed_hand_pose
    /\ hand_pose_np' = smoothed_hand_pose'
    /\ procPc' = "smoothed"
    /\ UNCHANGED <<constrained_hand_pose,
                   clipVars, blendVars, envVars, renderVars, reqVars>>
\* Lines 176-178: every column of the copy filtered in place, when the copy
\* has more than one frame.
ProcSmooth ==
    /\ procPc = "copied"
    /\ smoothed_hand_pose' = IF Len(smoothed_hand_pose) > 1
                             THEN GaussianFilterChannels(smoothed_hand_pose)
                             ELSE smoothed_hand_pose
    /\ procPc' = "smoothed"
    /\ UNCHANGED <<hand_pose_np, constrained_hand_pose,
                   clipVars, blendVars, envVars, renderVars, reqVars>>

\* Lines 181-187: a new array of the copy's shape, filled frame by frame
\* with the constrained frames, and returned.
ProcConstrain ==
    /\ procPc = "smoothed"
    /\ constrained_hand_pose' =
          [f \in 1..Len(smoothed_hand_pose) |->
              ApplyAnatomicalConstraintsToFrame(smoothed_hand_pose[f])]
    /\ procPc' = "returned"
    /\ UNCHANGED <<hand_pose_np, smoothed_hand_pose,
                   clipVars, blendVars, envVars, renderVars, reqVars>>

NextProcess == ProcCopy \/ ProcSmooth \/ ProcConstrain

SpecProcess == InitProcess /\ [][NextProcess]_vars

(***************************************************************************)
(* The callers: the CLI of word_to_smplx.py, the Streamlit page and the    *)
(* Flask endpoint                                                          *)
(***************************************************************************)
MaxRequests == 2
MaxWords == 2
\* The exceptions the body model raises in the lifetime of the process.
MaxModelErrors == 2

\* word_to_pkl's keys.  "ghost" is mapped to a file the dataset directory
\* does not hold; "zebra", which only the CLI's prompt can receive, is not
\* mapped at all.
MappedWords == {"april", "announce", "ghost"}
PklExists(w) == w \in {"april", "announce"}
TypedWords == MappedWords \cup {"zebra"}

\* load_pose_sequence of a word's file that exists.
LoadPoseSequence(w) == [kind |-> "ndarray", smplx |-> DatasetSeq(w)]

WordLists ==
    UNION {{ws \in [1..n -> MappedWords] :
               \A j, k \in 1..n : j # k => ws[j] # ws[k]} : n \in 1..MaxWords}

AnimationPath(w) == w \o "_animation.mp4"
RECURSIVE JoinWords(_)
JoinWords(ws) ==
    IF Len(ws) = 1 THEN ws[1] ELSE ws[1] \o "_" \o JoinWords(Tail(ws))
AslPath(ws) == JoinWords(ws) \o "_asl.mp4"
TempPath(n) == "tmp" \o ToString(n) \o ".mp4"

RECURSIVE Vstack(_)
Vstack(seqs) == IF seqs = << >> THEN << >> ELSE seqs[1] \o Vstack(Tail(seqs))

AllLoadable(ws) == \A k \in 1..Len(ws) : PklExists(ws[k])
Failure(kind) == [status |-> "error", error |-> kind, served |-> ""]
Success(path) == [status |-> "ok", error |-> "", served |-> path]
RenderEnded == rPc \in {"returned", "raised"}

\* The call animator.render_animation(pose, save_path = path, fps = 15).
CallRender(pose, path) ==
    /\ rPc' = "start"
    /\ pose_data' = pose
    /\ save_path' = path
    /\ fps' = 15
    /\ hands' = NoHands /\ frame_i' = 0 /\ frames' = << >> /\ calls' = << >>
    /\ output' = << >> /\ rResult' = "none"
NoRenderCall ==
    UNCHANGED renderVars

\* A request arrives: a word typed at the CLI's prompt, a selection of the
\* page's multiselect, or the dataset words of a transcript.
NewRequest ==
    /\ pc \in {"idle", "done"}
    /\ reqNo < MaxRequests
    /\ reqNo' = reqNo + 1
    /\ \E c \in {"cli", "streamlit", "flask"} :
          /\ caller' = c
          /\ IF c = "cli"
             THEN \E w \in TypedWords : words' = <<w>>
             ELSE words' \in WordLists
          /\ pc' = c \o "_start"
    /\ pose_data_sequences' = << >>
    /\ widx' = 0
    /\ all_frames' = << >>
    /\ resp' = NoResp
    /\ rPc' = "off" /\ pose_data' = NoPoseData /\ save_path' = "" /\ fps' = 0
    /\ hands' = NoHands /\ frame_i' = 0 /\ frames' = << >> /\ calls' = << >>
    /\ output' = << >> /\ rResult' = "none"
    /\ UNCHANGED <<envVars, clipVars, procVars, blendVars>>

\* word_to_smplx.py, lines 296-317: the lookup, the load and the call.
CliRun ==
    /\ pc = "cli_start"
    /\ IF words[1] \notin MappedWords
       THEN /\ resp' = Failure("word_not_found")
            /\ pc' = "done"
            /\ NoRenderCall
       ELSE IF ~PklExists(words[1])
       THEN /\ resp' = Failure("load_error")
            /\ pc' = "done"
            /\ NoRenderCall
       ELSE /\ CallRender(LoadPoseSequence(words[1]), AnimationPath(words[1]))
            /\ pc' = "cli_render"
            /\ UNCHANGED resp
    /\ UNCHANGED <<reqNo, caller, words, pose_data_sequences, widx, all_frames,
                   envVars, clipVars, procVars, blendVars>>

\* word_to_smplx.py, lines 317-323: the call returned or its exception is
\* caught and printed.
CliReturn ==
    /\ pc = "cli_render"
    /\ RenderEnded
    /\ resp' = IF rPc = "raised" THEN Failure(rResult) ELSE Success(save_path)
    /\ pc' = "done"
    /\ UNCHANGED <<reqNo, caller, words, pose_data_sequences, widx, all_frames,
                   renderVars, envVars, clipVars, procVars, blendVars>>

\* streamlit_app.py, lines 73-84: the loading loop.  The first word that
\* cannot be loaded empties the list and ends the loop.
StLoadKeepingLoaded ==
    /\ pc = "streamlit_start"
    /\ LET loadable == SelectSeq(words, PklExists)
       IN  /\ pose_data_sequences' = [k \in 1..Len(loadable) |-> DatasetSeq(loadable[k])]
           /\ resp' = IF AllLoadable(words) THEN resp ELSE Failure("load_error")
           /\ pc' = IF loadable = << >> THEN "done"
                    ELSE IF Len(words) = 1 THEN "st_single" ELSE "st_multi"
    /\ widx' = 1
    /\ all_frames' = << >>
    /\ UNCHANGED <<reqNo, caller, words, renderVars, envVars, clipVars, procVars, blendVars>>
StLoad ==
    /\ pc = "streamlit_start"
    /\ IF AllLoadable(words)
       THEN /\ pose_data_sequences' = [k \in 1..Len(words) |-> DatasetSeq(words[k])]
            /\ pc' = IF Len(words) = 1 THEN "st_single" ELSE "st_multi"
            /\ UNCHANGED resp
       ELSE /\ pose_data_sequences' = << >>
            /\ resp' = Failure("load_error")
            /\ pc' = "done"
    /\ widx' = 1
    /\ all_frames' = << >>
    /\ UNCHANGED <<reqNo, caller, words, renderVars, envVars, clipVars, procVars, blendVars>>

\* The page's display logic, lines 118-135: the video is shown when its
\* file exists.
Display(path) ==
    IF Exists(path) THEN Success(path) ELSE Failure("video_not_found")

\* streamlit_app.py, lines 85-90: one word; its video is rendered unless
\* the file is there already.
StSingle ==
    /\ pc = "st_single"
    /\ IF Exists(AnimationPath(words[1]))
       THEN /\ resp' = Display(AnimationPath(words[1]))
            /\ pc' = "done"
            /\ NoRenderCall
       ELSE IF ~PklExists(words[1])
       THEN /\ resp' = Failure("load_error")
            /\ pc' = "done"
            /\ NoRenderCall
       ELSE /\ CallRender(LoadPoseSequence(words[1]), AnimationPath(words[1]))
            /\ pc' = "st_single_render"
            /\ UNCHANGED resp
    /\ UNCHANGED <<reqNo, caller, words, pose_data_sequences, widx, all_frames,
                   envVars, clipVars, procVars, blendVars>>

\* Lines 90-92 and the display: an exception ends the script run.
StSingleReturn ==
    /\ pc = "st_single_render"
    /\ RenderEnded
    /\ resp' = IF rPc = "raised" THEN Failure(rResult) ELSE Display(save_path)
    /\ pc' = "done"
    /\ UNCHANGED <<reqNo, caller, words, pose_data_sequences, widx, all_frames,
                   renderVars, envVars, clipVars, procVars, blendVars>>

\* Lines 102-107: the frames of the word's video are read back and appended.
ReadBack(path) ==
    IF Exists(path) THEN all_frames \o files[path].frames ELSE all_frames
AfterWord == IF widx + 1 > Len(words) THEN "st_combine" ELSE "st_multi"

\* Lines 96-105 for the word at widx: its video is read when the file is
\* there, rendered first when it is not.
StMultiWord ==
    /\ pc = "st_multi"
    /\ IF Exists(AnimationPath(words[widx]))
       THEN /\ all_frames' = ReadBack(AnimationPath(words[widx]))
            /\ widx' = widx + 1
            /\ pc' = AfterWord
            /\ UNCHANGED resp
            /\ NoRenderCall
       ELSE IF ~PklExists(words[widx])
       THEN /\ resp' = Failure("load_error")
            /\ pc' = "done"
            /\ UNCHANGED <<all_frames, widx>>
            /\ NoRenderCall
       ELSE /\ CallRender(LoadPoseSequence(words[widx]), AnimationPath(words[widx]))
            /\ pc' = "st_multi_render"
            /\ UNCHANGED <<all_frames, widx, resp>>
    /\ UNCHANGED <<reqNo, caller, words, pose_data_sequences,
                   envVars, clipVars, procVars, blendVars>>

\* Lines 101-107 after the call: the video is read back if it was written.
StMultiReturn ==
    /\ pc = "st_multi_render"
    /\ RenderEnded
    /\ IF rPc = "raised"
       THEN /\ resp' = Failure(rResult)
            /\ pc' = "done"
            /\ UNCHANGED <<all_frames, widx>>
       ELSE /\ all_frames' = ReadBack(save_path)
            /\ resp' = IF Exists(save_path) THEN resp ELSE Failure("video_not_found")
            /\ widx' = widx + 1
            /\ pc' = AfterWord
    /\ UNCHANGED <<reqNo, caller, words, pose_data_sequences,
                   renderVars, envVars, clipVars, procVars, blendVars>>

\* Lines 108-115: the frames of all the words are encoded into a temporary
\* file, when there are any.
StCombine ==
    /\ pc = "st_combine"
    /\ IF all_frames # << >>
       THEN /\ files' = WriteVideo(files, TempPath(reqNo), all_frames, 15)
            /\ resp' = Success(TempPath(reqNo))
       ELSE /\ resp' = Failure("video_not_found")
            /\ UNCHANGED files
    /\ pc' = "done"
    /\ UNCHANGED <<renderer, errorsLeft, reqNo, caller, words, pose_data_sequences,
                   widx, all_frames, renderVars, clipVars, procVars, blendVars>>

\* app.py, lines 67-82: the cached video is served when it exists; otherwise
\* the sequences are loaded and stacked, put back into the first word's
\* record as a Python list of frames, and rendered.
FlaskRun ==
    /\ pc = "flask_start"
    /\ IF Exists(AslPath(words))
       THEN /\ resp' = Success(AslPath(words))
            /\ pc' = "done"
            /\ UNCHANGED pose_data_sequences
            /\ NoRenderCall
       ELSE IF ~AllLoadable(words)
       THEN /\ resp' = Failure("load_error")
            /\ pc' = "done"
            /\ UNCHANGED pose_data_sequences
            /\ NoRenderCall
       ELSE /\ pose_data_sequences' = [k \in 1..Len(words) |-> DatasetSeq(words[k])]
            /\ CallRender([kind |-> "list",
                           smplx |-> Vstack([k \in 1..Len(words) |-> DatasetSeq(words[k])])],
                          AslPath(words))
            /\ pc' = "flask_render"
            /\ UNCHANGED resp
    /\ UNCHANGED <<reqNo, caller, words, widx, all_frames,
                   envVars, clipVars, procVars, blendVars>>

\* app.py, line 83: the URL of the video, or the server's error response.
FlaskReturn ==
    /\ pc = "flask_render"
    /\ RenderEnded
    /\ resp' = IF rPc = "raised" THEN Failure(rResult) ELSE Success(save_path)
    /\ pc' = "done"
    /\ UNCHANGED <<reqNo, caller, words, pose_data_sequences, widx, all_frames,
                   renderVars, envVars, clipVars, procVars, blendVars>>

Init ==
    /\ ClipOff /\ ProcOff /\ BlendOff
    /\ renderer \in BOOLEAN
    /\ files = << >>
    /\ errorsLeft = MaxModelErrors
    /\ rPc = "off" /\ pose_data = NoPoseData /\ save_path = "" /\ fps = 0
    /\ hands = NoHands /\ frame_i = 0 /\ frames = << >> /\ calls = << >>
    /\ output = << >> /\ rResult = "none"
    /\ pc = "idle" /\ reqNo = 0 /\ caller = "" /\ words = << >>
    /\ pose_data_sequences = << >> /\ widx = 0 /\ all_frames = << >>
    /\ resp = NoResp

Next ==
    \/ NewRequest
    \/ CliRun \/ CliReturn
    \/ StLoad \/ StSingle \/ StSingleReturn
    \/ StMultiWord \/ StMultiReturn \/ StCombine
    \/ FlaskRun \/ FlaskReturn
    \/ RenderStart \/ EvalFrame \/ RetryFrame \/ RenderFrame \/ Encode

Spec == Init /\ [][Next]_vars

(***************************************************************************)
(* Claims about the constraint engine                                      *)
(***************************************************************************)
\* The interval the joint limit table declares for a (finger, joint type,
\* DoF) position: thumb joints have their own entries, the four other
\* fingers share the entries of the joint type.
DofSuffix(joint, dof) ==
    CASE dof = 0 -> "_flexion"
      [] dof = 1 -> IF joint \in {"cmc", "mcp"} THEN "_abduction" ELSE "_side_flex"
      [] dof = 2 -> "_twist"
DeclaredInterval(finger, joint, dof) ==
    hand_joint_limits[(IF finger = "thumb" THEN "thumb_" ELSE "")
                        \o joint \o DofSuffix(joint, dof)]

WithinDeclared(frame) ==
    \A k \in 1..Len(finger_joint_mapping), dof \in 0..2 :
        LET e == finger_joint_mapping[k]
            iv == DeclaredInterval(e.finger, e.joint, dof)
            x == frame[e.start + 1 + dof]
        IN  IsFinite(x) /\ iv[1] <= x /\ x <= iv[2]

\* C1: whatever finite values the input frame holds, every value of the
\* engine's output lies in the closed interval declared for its (finger,
\* joint type, DoF) position, and the output has 45 values.
C1_OutputWithinDeclaredLimits ==
    clipPc # "input" => Len(clipOut) = HandDim /\ WithinDeclared(clipOut)

\* C1 witness: the engine ran on a frame with a value above its interval, a
\* value below its interval and a nonzero value inside its interval.
C1_Witness ==
    /\ clipPc = "once"
    /\ \E p \in 1..HandDim : clipIn[p] > clipOut[p]
    /\ \E p \in 1..HandDim : clipIn[p] < clipOut[p]
    /\ \E p \in 1..HandDim : clipIn[p] # 0 /\ clipIn[p] = clipOut[p]

\* C2: the engine is idempotent (a second application returns the output of
\* the first) and a frame already inside its intervals comes back with every
\* value unchanged at its position.
C2_ClipIdempotent ==
    /\ clipPc = "twice" => clipTwice = clipOut
    /\ (clipPc # "input" /\ WithinDeclared(clipIn)) => clipOut = clipIn

\* C2 witness: a second application on the output of a frame that the first
\* application changed, some nonzero value of which was already in range.
C2_Witness ==
    /\ clipPc = "twice"
    /\ clipOut # clipIn
    /\ \E p \in 1..HandDim : clipIn[p] # 0 /\ clipOut[p] = clipIn[p]

(***************************************************************************)
(* Claims about blend_pose_sequences                                       *)
(***************************************************************************)
MinLen == IF Len(seq_a) < Len(seq_b) THEN Len(seq_a) ELSE Len(seq_b)

\* C3 as stated: the result has N1 + N2 frames when n_blend = 0 and when
\* 1 <= n_blend <= min(N1, N2).
C3_AsStated ==
    (blendPc = "done" /\ n_blend >= 0 /\ n_blend <= MinLen)
        => Len(blendOut) = Len(seq_a) + Len(seq_b)

\* C3 amended: the result has N1 + N2 frames when n_blend = 0 and
\* N1 + N2 - n_blend frames when 1 <= n_blend <= min(N1, N2): the n_blend
\* blended frames stand for the last n_blend of A and the first n_blend of B.
C3_BlendLength ==
    (blendPc = "done" /\ n_blend >= 0 /\ n_blend <= MinLen)
        => Len(blendOut) = Len(seq_a) + Len(seq_b) - n_blend

\* C3 witness: a blend of width 2 or more that both sequences are long
\* enough for, and whose result is shorter than N1 + N2.
C3_Witness ==
    /\ blendPc = "done"
    /\ n_blend >= 2 /\ n_blend <= MinLen
    /\ Len(blendOut) < Len(seq_a) + Len(seq_b)

(***************************************************************************)
(* Claims about render_animation                                           *)
(***************************************************************************)
Params == pose_data.smplx
NumFrames == Len(Params)
CallIds == 1..Len(calls)
ModelRaised == \E k \in CallIds : ~calls[k].ok
Zeros45 == [c \in 1..HandDim |-> 0]
HandIds == {"left", "right"}
RawHand(h) == IF h = "left" THEN LeftHandRaw(Params) ELSE RightHandRaw(Params)
PassedHand(k, h) ==
    IF h = "left" THEN calls[k].args.left_hand_pose ELSE calls[k].args.right_hand_pose

\* The non-finite cells of the input: <<frame, index in the frame>>.
NonFiniteCells ==
    {fp \in (1..NumFrames) \X (1..PoseDim) : ~IsFinite(Params[fp[1]][fp[2]])}

\* The input with every non-finite value replaced by the value the word's
\* record holds there when it is sound.
FiniteVariant ==
    [f \in 1..NumFrames |->
        [p \in 1..PoseDim |->
            IF IsFinite(Params[f][p]) THEN Params[f][p]
            ELSE BaseFrame("announce", f)[p]]]

\* C5 as stated: with exactly one non-finite value, in the right hand of one
\* frame, the call completes, the right hand passed to the body model at that
\* frame is all zero, and the hands passed at every other frame are those of
\* the same sequence with a finite value in that place.
C5_AsStated ==
    (/\ WellFormed(pose_data)
     /\ Cardinality(NonFiniteCells) = 1
     /\ \A fp \in NonFiniteCells : fp[2] > 111)
    => /\ ~ModelRaised => rPc # "raised"
       /\ \A k \in CallIds : calls[k].attempt = 1 =>
            IF <<calls[k].frame + 1>> \in {<<fp[1]>> : fp \in NonFiniteCells}
            THEN calls[k].args.right_hand_pose = Zeros45
            ELSE /\ calls[k].args.left_hand_pose =
                      ProcessHandPoseData(LeftHandRaw(FiniteVariant))[calls[k].frame + 1]
                 /\ calls[k].args.right_hand_pose =
                      ProcessHandPoseData(RightHandRaw(FiniteVariant))[calls[k].frame + 1]

C7_RetryOnceThenPropagate ==
    /\ \A k \in CallIds :
          /\ calls[k].attempt = 2 =>
                /\ k > 1
                /\ calls[k - 1].frame = calls[k].frame
                /\ calls[k - 1].attempt = 1 /\ ~calls[k - 1].ok
                /\ calls[k].args.left_hand_pose = Zeros45
                /\ calls[k].args.right_hand_pose = Zeros45
                /\ calls[k].args.body_pose = calls[k - 1].args.body_pose
                /\ calls[k].args.global_orient = calls[k - 1].args.global_orient
          /\ (calls[k].attempt = 1 /\ ~calls[k].ok) =>
                IF k = Len(calls) THEN rPc = "retry"
                ELSE calls[k + 1].attempt = 2 /\ calls[k + 1].frame = calls[k].frame
          /\ (calls[k].attempt = 2 /\ ~calls[k].ok) =>
                /\ k = Len(calls)
                /\ rPc = "raised" /\ rResult = "ModelError"
                /\ files = << >>
          /\ calls[k].ok =>
                IF k = Len(calls)
                THEN rPc \in {"render", "frame", "encode", "returned"}
                ELSE /\ calls[k + 1].attempt = 1
                     /\ calls[k + 1].frame = calls[k].frame + 1
          /\ calls[k].attempt = 1 =>
                calls[k].frame = Cardinality({j \in 1..(k - 1) : calls[j].ok})
    /\ \A f \in 0..NumFrames : Cardinality({k \in CallIds : calls[k].frame = f}) <= 2
    /\ calls # << >> => calls[1].frame = 0 /\ calls[1].attempt = 1
    /\ renderer => Len(frames) = Cardinality({k \in CallIds : calls[k].ok})
                       - (IF rPc = "render" THEN 1 ELSE 0)

\* C7 witness: a call in which the retry of one frame succeeded, a later
\* frame was evaluated, and the retry of that later frame failed.
C7_Witness ==
    /\ rPc = "raised"
    /\ \E k \in CallIds : calls[k].attempt = 2 /\ calls[k].ok /\ k < Len(calls)
    /\ \E k \in CallIds :
          /\ calls[k].attempt = 2 /\ ~calls[k].ok
          /\ calls[k - 1].args.right_hand_pose # Zeros45

\* C9: without a rendering capability only frame 0 is evaluated, the call
\* returns the body model's output for it, nothing is rendered, nothing is
\* written even when a save path is given, and the missing capability raises
\* no error: the call ends in an error only for an invalid smplx field or a
\* body model that failed twice.
C9_NoRendererFallback ==
    ~renderer =>
        /\ frames = << >>
        /\ files = << >>
        /\ rPc # "encode"
        /\ \A k \in CallIds : calls[k].frame = 0
        /\ rPc = "returned" =>
              /\ rResult = "output"
              /\ calls # << >> /\ calls[Len(calls)].ok
              /\ output = calls[Len(calls)].args
        /\ rPc = "raised" =>
              \/ rResult = StartError(pose_data) /\ ~WellFormed(pose_data)
              \/ /\ rResult = "ModelError" /\ Len(calls) = 2
                 /\ ~calls[1].ok /\ ~calls[2].ok

\* C9 witness: a call without a renderer, with a save path and more than one
\* frame, that returned the body model's output.
C9_Witness ==
    /\ ~renderer /\ rPc = "returned" /\ rResult = "output"
    /\ save_path # "" /\ NumFrames > 1

(***************************************************************************)
(* Claims about whole requests                                             *)
(***************************************************************************)
RECURSIVE TotalFrames(_)
TotalFrames(ws) == IF ws = << >> THEN 0 ELSE SeqLen(ws[1]) + TotalFrames(Tail(ws))

\* The video holds one image per frame of the words' sequences, in word
\* order then frame order (the image shows the frame's global orientation,
\* turned by pi), at the given frame rate.
VideoOf(video, ws, rate) ==
    LET all_params == Vstack([k \in 1..Len(ws) |-> DatasetSeq(ws[k])])
    IN  /\ video.fps = rate
        /\ Len(video.frames) = TotalFrames(ws)
        /\ \A k \in 1..Len(video.frames) :
              k <= Len(all_params) =>
                 video.frames[k].orient[1] = all_params[k][1] + PiHundredths

\* C4 as stated: a request for words that all resolve, on an evaluator that
\* can render and whose body model raises nothing, completes, and its
\* artifact holds the rendered frames of all the words, in word order then
\* frame order, at 15 fps: as many frames as the per-word sequences have in
\* all.
C4_AsStated ==
    (/\ pc = "done"
     /\ caller \in {"flask", "streamlit"} /\ Len(words) > 1
     /\ AllLoadable(words)
     /\ renderer
     /\ resp.error # "ModelError")
    => /\ resp.status = "ok"
       /\ Exists(resp.served)
       /\ VideoOf(files[resp.served], words, 15)

\* The part of C4 that is about the Streamlit page alone.
C4_StreamlitOnly ==
    (/\ pc = "done"
     /\ caller = "streamlit" /\ Len(words) > 1
     /\ AllLoadable(words)
     /\ renderer
     /\ resp.error # "ModelError")
    => /\ resp.status = "ok"
       /\ Exists(resp.served)
       /\ VideoOf(files[resp.served], words, 15)

\* The successful evaluations so far are those of frames 0, 1, 2, ... in
\* this order.
EvaluatedInOrder ==
    LET oks == SelectSeq(calls, LAMBDA c : c.ok)
    IN  \A k \in 1..Len(oks) : oks[k].frame = k - 1

\* C8: within a call the evaluator goes through the frames 0..N-1 in
\* increasing order and writes the video only after all N have been
\* evaluated and rendered; so every video at a save path is complete (one
\* image per frame of its words, at 15 fps) in every state, also after a call
\* that was aborted in some frame, and a video that a request serves is
\* complete.
C8_VideoOnlyAfterAllFrames ==
    /\ EvaluatedInOrder
    /\ rPc \in {"frame", "retry", "render"} =>
          /\ frame_i < NumFrames
          /\ renderer => Len(frames) = frame_i
          /\ \A k \in CallIds : calls[k].frame <= frame_i
    /\ rPc = "encode" \/ rResult = "frames" =>
          /\ frame_i = NumFrames
          /\ Len(frames) = NumFrames
          /\ Cardinality({k \in CallIds : calls[k].ok}) = NumFrames
    /\ \A w \in MappedWords :
          Exists(AnimationPath(w)) => VideoOf(files[AnimationPath(w)], <<w>>, 15)
    /\ \A ws \in WordLists :
          Exists(AslPath(ws)) => VideoOf(files[AslPath(ws)], ws, 15)
    /\ (rPc = "raised" /\ Exists(save_path)) =>
          /\ caller = "cli"
          /\ VideoOf(files[save_path], words, 15)
    /\ (pc = "done" /\ resp.status = "ok" /\ Exists(resp.served)) =>
          VideoOf(files[resp.served], words, 15)

\* C8 witness: a call that rendered at least one frame and was then aborted
\* by a failed retry, with nothing at its save path.
C8_Witness ==
    /\ renderer
    /\ rPc = "raised" /\ rResult = "ModelError"
    /\ Len(frames) >= 1
    /\ save_path # "" /\ ~Exists(save_path)

\* C10: while the request's word list holds a word without a dataset record
\* (not mapped, or mapped to a file that is not there), render_animation is
\* never called, no sequence is kept, no file is written or changed, and the
\* request ends in an error that says what was not found: "word not found"
\* for a word that is not mapped, the load error of the word's record
\* otherwise.
HasMissingWord ==
    \E k \in 1..Len(words) : words[k] \notin MappedWords \/ ~PklExists(words[k])
C10_MissingWordAbortsRequest ==
    [][HasMissingWord' =>
          /\ files' = files
          /\ rPc' = "off" /\ calls' = << >> /\ frames' = << >>
          /\ pose_data_sequences' = << >> /\ all_frames' = << >>
          /\ pc' \in {"cli_start", "streamlit_start", "flask_start", "done"}
          /\ pc' = "done" =>
                /\ resp'.status = "error" /\ resp'.served = ""
                /\ resp'.error = IF \E k \in 1..Len(words') : words'[k] \notin MappedWords
                                 THEN "word_not_found" ELSE "load_error"]_vars

\* C10 witness: a second request, for a word with a record followed by one
\* without, that ended in the error while the first request's video is there.
C10_Witness ==
    /\ pc = "done" /\ reqNo = 2
    /\ Len(words) = 2 /\ PklExists(words[1]) /\ ~PklExists(words[2])
    /\ resp.status = "error"
    /\ pose_data_sequences = << >>
    /\ Exists(AnimationPath(words[1]))

\* C11: a render_animation call whose pose record has no smplx field, or one
\* that is not an array of 156-value frames (a list, a flat array, an array
\* without rows, rows that are too short), ends in an error raised before
\* the loop: the body model is never called, no frame is rendered, nothing
\* is returned and no file is written.
C11_InvalidRecordAbortsBeforeEvaluation ==
    (rPc # "off" /\ ~WellFormed(pose_data)) =>
        /\ calls = << >>
        /\ frames = << >>
        /\ output = << >>
        /\ files = << >>
        /\ rPc \in {"start", "raised"}
        /\ rPc = "raised" => rResult \in {"ValueError", "IndexError"}

\* C11 witnesses: a call with a renderer and a save path that raised for a
\* list of sound frames, and one that raised for rows one value short.
C11_Witness ==
    /\ renderer /\ save_path # ""
    /\ rPc = "raised"
    /\ \/ pose_data.kind = "list" /\ Len(pose_data.smplx) = MaxFrames
       \/ /\ pose_data.kind = "ndarray" /\ HasRows(pose_data)
          /\ Len(pose_data.smplx[1]) = PoseDim - 1

(***************************************************************************)
(* Claims about the blended window                                         *)
(***************************************************************************)
Abs(x) == IF x < 0 THEN 0 - x ELSE x
Blending == blendPc = "done" /\ n_blend >= 1 /\ n_blend <= MinLen

\* The pair that blended frame i (1-based) interpolates, and the frame.
PairA(i) == seq_a[Len(seq_a) - n_blend + i]
PairB(i) == seq_b[i]
Blended(i) == blendOut[Len(seq_a) - n_blend + i]

\* Blended frame i carries weight i / (n_blend + 1) on B and the rest on A,
\* at every one of the 156 parameters.
WeightsExact ==
    \A i \in 1..n_blend, p \in 1..PoseDim :
        (n_blend + 1) * Blended(i)[p] =
            (n_blend + 1 - i) * PairA(i)[p] + i * PairB(i)[p]

\* x is nearer to a than to b at every parameter where a and b differ, and
\* equal to both where they agree.
CloserTo(x, a, b) ==
    \A p \in 1..PoseDim :
        IF a[p] = b[p] THEN x[p] = a[p]
        ELSE Abs(x[p] - a[p]) < Abs(x[p] - b[p])
Equidistant(x, a, b) ==
    \A p \in 1..PoseDim : Abs(x[p] - a[p]) = Abs(x[p] - b[p])

\* C12 as stated: for every blend width from 1 to min(N1, N2), width 1
\* included, the weights are as above, the first blended frame is closer to
\* A's frame of its pair than to B's and the last is closer to B's than to
\* A's (pairs of different frames).
C12_AsStated ==
    Blending =>
        /\ WeightsExact
        /\ PairA(1) # PairB(1) => CloserTo(Blended(1), PairA(1), PairB(1))
        /\ PairA(n_blend) # PairB(n_blend) =>
              CloserTo(Blended(n_blend), PairB(n_blend), PairA(n_blend))

\* C12 amended: the weights are as above for every blend width from 1 to
\* min(N1, N2); for a width of 2 or more the first blended frame is closer to
\* A's frame of its pair and the last is closer to B's; for width 1 the one
\* blended frame is the midpoint of its pair, as far from A's frame as from
\* B's.
C12_BlendWeights ==
    Blending =>
        /\ WeightsExact
        /\ n_blend >= 2 =>
              /\ CloserTo(Blended(1), PairA(1), PairB(1))
              /\ CloserTo(Blended(n_blend), PairB(n_blend), PairA(n_blend))
        /\ n_blend = 1 => Equidistant(Blended(1), PairA(1), PairB(1))

\* C12 witness: a blend of width 3 whose first and last pairs are pairs of
\* different frames, and whose first blended frame differs from A's.
C12_Witness ==
    /\ Blending /\ n_blend = 3
    /\ PairA(1) # PairB(1) /\ PairA(3) # PairB(3)
    /\ Blended(1) # PairA(1) /\ Blended(3) # PairB(3)

\* C13: for width 0 and for a width that either sequence is too short for,
\* the result is the frames of A followed by the frames of B, unchanged (a
\* negative width gives the same); in every other case the result is the
\* frames of A before its last n_blend, unchanged and in order, then the
\* n_blend blended frames, then the frames of B after its first n_blend,
\* unchanged and in order.
C13_FallbackAndKeptFrames ==
    blendPc = "done" =>
        IF n_blend <= 0 \/ Len(seq_a) < n_blend \/ Len(seq_b) < n_blend
        THEN blendOut = seq_a \o seq_b
        ELSE /\ Len(blendOut) = (Len(seq_a) - n_blend) + n_blend + (Len(seq_b) - n_blend)
             /\ SubSeq(blendOut, 1, Len(seq_a) - n_blend)
                    = SubSeq(seq_a, 1, Len(seq_a) - n_blend)
             /\ SubSeq(blendOut, Len(seq_a) + 1, Len(blendOut))
                    = SubSeq(seq_b, n_blend + 1, Len(seq_b))

\* C13 witness: a blend that keeps frames of A before the window and frames
\* of B after it, the kept frame of A differing from the frame that follows.
C13_Witness ==
    /\ Blending
    /\ Len(seq_a) > n_blend /\ Len(seq_b) > n_blend
    /\ blendOut[1] = seq_a[1]
    /\ blendOut[Len(blendOut)] = seq_b[Len(seq_b)]
    /\ Blended(1) # PairA(1) /\ Blended(1) # PairB(1)

(***************************************************************************)
(* Claims about _process_hand_pose_data                                    *)
(***************************************************************************)
SameShape(x, y) ==
    /\ Len(x) = Len(y)
    /\ \A f \in 1..Len(x) : Len(x[f]) = HandDim /\ Len(y[f]) = HandDim

\* C14: _process_hand_pose_data never changes the caller's array; with
\* fewer than 2 frames the smoothing step leaves the sequence as it came in;
\* and for every number of frames the array returned has the input's frames
\* and 45 channels (it is the constrained smoothed sequence).
C14_ShortSequencesPassSmoothing ==
    [][/\ hand_pose_np' = hand_pose_np
       /\ (procPc' \in {"smoothed", "returned"} /\ Len(hand_pose_np') < 2) =>
             smoothed_hand_pose' = hand_pose_np'
       /\ procPc' = "returned" =>
             /\ SameShape(constrained_hand_pose', hand_pose_np')
             /\ constrained_hand_pose' = ProcessHandPoseData(hand_pose_np')]_vars

\* C14 witness: a returned call on one frame, which the smoothing step left
\* alone and the constraint engine then changed.
C14_Witness ==
    /\ procPc = "returned"
    /\ Len(hand_pose_np) = 1
    /\ smoothed_hand_pose = hand_pose_np
    /\ constrained_hand_pose # hand_pose_np

(***************************************************************************)
(* Claims about the joint layout registry and the limit table              *)
(***************************************************************************)
JointIds == 1..Len(finger_joint_mapping)
JointsAt(p) ==
    {k \in JointIds : finger_joint_mapping[k].start <= p /\ p < finger_joint_mapping[k].end}

\* C15: the registry has 15 entries, one per (finger, joint type), each a
\* half-open range of 3 indices; each range starts where the one before it
\* ends, the first at 0 and the last ending at 45, so that every index
\* 0..44, and so every index of the frame the engine is given, lies in
\* exactly one range; and every limit name the engine reads
\* for an entry, one per degree of freedom, is in the limit table with a
\* lower bound that is at most its upper bound.
C15_RegistryCoversHandVector ==
    /\ Len(finger_joint_mapping) = 15
    /\ Cardinality({<<finger_joint_mapping[k].finger, finger_joint_mapping[k].joint>> :
                        k \in JointIds}) = 15
    /\ \A k \in JointIds :
          /\ finger_joint_mapping[k].start >= 0
          /\ finger_joint_mapping[k].end = finger_joint_mapping[k].start + 3
          /\ finger_joint_mapping[k].start =
                IF k = 1 THEN 0 ELSE finger_joint_mapping[k - 1].end
    /\ finger_joint_mapping[Len(finger_joint_mapping)].end = HandDim
    /\ \A p \in 0..(HandDim - 1) : Cardinality(JointsAt(p)) = 1
    /\ \A p \in 1..Len(clipIn) : Cardinality(JointsAt(p - 1)) = 1
    /\ \A p \in {0 - 1, HandDim} : JointsAt(p) = {}
    /\ \A k \in JointIds :
          LET names == BranchLimitNames(finger_joint_mapping[k].finger,
                                        finger_joint_mapping[k].joint)
          IN  /\ Len(names) = 3
              /\ \A d \in 1..Len(names) :
                    /\ names[d] \in DOMAIN hand_joint_limits
                    /\ hand_joint_limits[names[d]][1] <= hand_joint_limits[names[d]][2]

\* C15 witness: the engine has run on a frame and changed the value at the
\* last index of the hand vector, 44, and nothing before the last joint.
C15_Witness ==
    /\ clipPc = "once"
    /\ clipOut[HandDim] # clipIn[HandDim]
    /\ SubSeq(clipOut, 1, HandDim - 3) = SubSeq(clipIn, 1, HandDim - 3)

==========================================================================
